---- MODULE Spec2Model ----
(***************************************************************************)
(* A model of SmartBridge (src/src/SmartBridge.ts): the session around a   *)
(* LeapClient transport, its ping loop (liveness monitor), its teardown    *)
(* and its command operations.                                             *)
(*                                                                         *)
(* JavaScript runs one macrotask at a time and drains the microtask queue  *)
(* before the next one, so every action below is one macrotask (a timer    *)
(* callback, a transport event, a call by the owner) together with the     *)
(* promise continuations it makes runnable.                                *)
(***************************************************************************)
EXTENDS Integers, Sequences, FiniteSets, TLC

\* The fields of the records below and their rank: every record is written
\* with its fields in this order.
RecordFields ==
    [ key |-> 1, event |-> 2, bridgeID |-> 3,
      response |-> 4, probe |-> 5, timeout |-> 6,
      race |-> 7, reason |-> 8, op |-> 9,
      arg |-> 10, reqs |-> 11, type |-> 12,
      href |-> 13, body |-> 14, out |-> 15,
      overtaken |-> 16, st |-> 17, val |-> 18,
      resp |-> 19, err |-> 20, LocalZones |-> 21,
      ButtonGroups |-> 22, Buttons |-> 23, FirmwareDisplayName |-> 24,
      ModelNumber |-> 25, FullyQualifiedName |-> 26, SerialNumber |-> 27,
      firmwareRevision |-> 28, manufacturer |-> 29, model |-> 30,
      name |-> 31, serialNumber |-> 32, pingLooper |-> 33,
      timers |-> 34, nextTimer |-> 35, closeCalls |-> 36,
      disconnectedFired |-> 37, sessionCloses |-> 38, emitted |-> 39,
      device |-> 40, value |-> 41 ]

(* ------------------------------ bounds -------------------------------- *)
MaxCycles == 2        \* ping cycles started by the idle timer
MaxCloses == 2        \* explicit close() calls by the owner
MaxUnsolicited == 2   \* unsolicited messages emitted by the transport
MaxCalls == 1         \* command operations invoked by the owner
MaxButtons == 3       \* button references of a button group
MaxRequests == 3      \* requests the command operations send in all

(* --------------------------- program constants ------------------------ *)
PING_INTERVAL_MS == 60000
PING_TIMEOUT_MS == 1000

(* ------------------------------ values -------------------------------- *)
BridgeIDs == {"bridge-a", "bridge-b"}

\* A response body is known by the one property that discriminates it
\* (Device, Devices, ZoneStatus, ButtonGroup, Button) and its payload; a
\* response may also carry no body at all (Body is optional).
NoBody == [key |-> "none", val |-> 0]
Body(k, v) == [key |-> k, val |-> v]
Bodies ==
    { NoBody, Body("Device", 1), Body("Devices", 1), Body("ZoneStatus", 48),
      Body("ButtonGroup", 1), Body("Button", 1), Body("Button", 2) }
Responses == [Body : Bodies]
UnsolicitedResponses == [Body : {Body("ZoneStatus", 48), Body("Button", 1)}]
TransportErrors == {"ECONNRESET", "EPIPE"}

VARIABLES
    bridgeID,          \* SmartBridge.bridgeID
    pingLooper,        \* SmartBridge.pingLooper: the handle of a timer
    timers,            \* the armed idle-interval timers (ids)
    nextTimer,         \* the id the next setTimeout returns
    cycles,            \* the pingLoop() invocations: probe, timeout, race
    closeCalls,        \* how often LeapClient.close() was invoked
    disconnectedFired, \* whether the LeapClient emitted 'disconnected'
    sessionCloses,     \* how often SmartBridge.close() ran
    userCloses,        \* how often the owner called close()
    unsolicitedLog,    \* the unsolicited responses the LeapClient emitted
    emitted,           \* the events SmartBridge emitted to its subscribers
    calls              \* the command operations invoked by the owner

lifeVars == <<bridgeID, pingLooper, timers, nextTimer, cycles, closeCalls,
              disconnectedFired, sessionCloses, userCloses, unsolicitedLog,
              emitted>>
vars == <<bridgeID, pingLooper, timers, nextTimer, cycles, closeCalls,
          disconnectedFired, sessionCloses, userCloses, unsolicitedLog, emitted,
          calls>>

(* ---------------- the state the teardown handlers work on ------------- *)
World ==
    [ pingLooper |-> pingLooper, timers |-> timers, nextTimer |-> nextTimer,
      closeCalls |-> closeCalls, disconnectedFired |-> disconnectedFired,
      sessionCloses |-> sessionCloses, emitted |-> emitted ]

Commit(w) ==
    /\ pingLooper' = w.pingLooper
    /\ timers' = w.timers
    /\ nextTimer' = w.nextTimer
    /\ closeCalls' = w.closeCalls
    /\ disconnectedFired' = w.disconnectedFired
    /\ sessionCloses' = w.sessionCloses
    /\ emitted' = w.emitted

\* clearTimeout(handle): the timer of that handle, if still armed, is gone.
clearTimeout(w, handle) == [w EXCEPT !.timers = @ \ {handle}]

\* _setPingTimeout: arm a new idle-interval timer and keep its handle.
setPingTimeout(w) ==
    [w EXCEPT !.timers = @ \cup {w.nextTimer},
              !.pingLooper = w.nextTimer,
              !.nextTimer = @ + 1]

RECURSIVE clientClose(_, _)
RECURSIVE close(_, _)
RECURSIVE handleDisconnect(_, _)

\* LeapClient 'disconnected': at most once per instance; SmartBridge's
\* handler, registered in the constructor, runs synchronously.
clientEmitDisconnected(w, sync) ==
    handleDisconnect([w EXCEPT !.disconnectedFired = TRUE], sync)

\* LeapClient.close(): releases the transport; it may emit 'disconnected'
\* from within the call (sync) when it has not been emitted before.
clientClose(w, sync) ==
    LET w1 == [w EXCEPT !.closeCalls = @ + 1]
    IN  IF sync /\ ~w1.disconnectedFired
        THEN clientEmitDisconnected(w1, sync)
        ELSE w1

\* A faulty close(): the timer is left armed.
closeKeepsTimer(w, sync) ==
    clientClose([w EXCEPT !.sessionCloses = @ + 1], sync)

\* SmartBridge.close()
close(w, sync) ==
    clientClose(clearTimeout([w EXCEPT !.sessionCloses = @ + 1], w.pingLooper),
                sync)

\* A faulty handler: registered twice, it runs twice per notification.
handleDisconnectTwice(w, sync) == close(close(w, sync), sync)

\* SmartBridge._handleDisconnect()
handleDisconnect(w, sync) == close(w, sync)

\* A faulty relay: the identifier is a fixed one, not the session's.
handleUnsolicitedFixedID(ev, id, response) ==
    Append(ev, [event |-> "unsolicited", bridgeID |-> "bridge-a",
                response |-> response])

\* SmartBridge._handleUnsolicited(response)
handleUnsolicited(ev, id, response) ==
    Append(ev, [event |-> "unsolicited", bridgeID |-> id, response |-> response])

(* ------------------------------- Init --------------------------------- *)
\* The state after the constructor: both handlers are registered and
\* _setPingTimeout() has armed the first idle-interval timer.
Init ==
    /\ bridgeID \in BridgeIDs
    /\ pingLooper = 1
    /\ timers = {1}
    /\ nextTimer = 2
    /\ cycles = <<>>
    /\ closeCalls = 0
    /\ disconnectedFired = FALSE
    /\ sessionCloses = 0
    /\ userCloses = 0
    /\ unsolicitedLog = <<>>
    /\ emitted = <<>>
    /\ calls = <<>>

(* ------------------------- the liveness monitor ----------------------- *)
\* Promise.race([this.ping(), timeout]) settles with the first of the two
\* that settles; a later settlement of the other has no effect on it.
raceSettle(cycle, how, reason) ==
    IF cycle.race = "pending"
    THEN [cycle EXCEPT !.race = how, !.reason = reason]
    ELSE cycle

\* Faulty handlers: attached to the probe and to the timeout themselves,
\* they run at every settlement, not only at the one that decides the race.
raceHandlersEverySettlement(cycle, w, handled) == handled

\* The handlers hang on the promise of the race: they run (to handled) when
\* a settlement decides the race and not at all (w stays) when it was
\* decided before.
raceHandlers(cycle, w, handled) ==
    IF cycle.race = "pending" THEN handled ELSE w

\* A faulty .then: the timer is armed twice.
raceThenArmsTwice(w) == setPingTimeout(setPingTimeout(clearTimeout(w, w.pingLooper)))

\* A faulty .then: the timer is cleared and never armed again.
raceThenNoRearm(w) == clearTimeout(w, w.pingLooper)

\* .then of the race: clearTimeout(this.pingLooper); this._setPingTimeout()
raceThen(w) == setPingTimeout(clearTimeout(w, w.pingLooper))

\* A faulty .catch: the failure is answered by another idle interval.
raceCatchRetries(w, sync) == setPingTimeout(w)

\* A faulty .catch: the error is logged and the transport left open.
raceCatchLogsOnly(w, sync) == w

\* .catch of the race: this.client.close()
raceCatch(w, sync) == clientClose(w, sync)

\* The callback of the idle-interval timer: clearTimeout(this.pingLooper),
\* then pingLoop(): start the timeout timer, send the ping, race the two.
\* The timeout timer of the cycle before has fired by then, since
\* PING_TIMEOUT_MS < PING_INTERVAL_MS.
IdleTimerFires(t) ==
    /\ t \in timers
    /\ Len(cycles) < MaxCycles
    /\ PING_TIMEOUT_MS < PING_INTERVAL_MS
           => \A c \in 1..Len(cycles) : cycles[c].timeout # "pending"
    /\ Commit(clearTimeout([World EXCEPT !.timers = @ \ {t}], pingLooper))
    /\ cycles' = Append(cycles,
                   [probe |-> "inflight", timeout |-> "pending", race |-> "pending",
                    reason |-> "none"])
    /\ UNCHANGED <<bridgeID, userCloses, unsolicitedLog, calls>>

\* The ping request of cycle c resolves.
ProbeResolves(c) ==
    /\ c \in 1..Len(cycles)
    /\ cycles[c].probe = "inflight"
    /\ cycles' = [cycles EXCEPT ![c] = raceSettle([@ EXCEPT !.probe = "resolved"], "fulfilled", "none")]
    /\ Commit(raceHandlers(cycles[c], World, raceThen(World)))
    /\ UNCHANGED <<bridgeID, userCloses, unsolicitedLog, calls>>

\* The ping request of cycle c fails with a transport error.
ProbeFails(c, err, sync) ==
    /\ c \in 1..Len(cycles)
    /\ cycles[c].probe = "inflight"
    /\ cycles' = [cycles EXCEPT ![c] = raceSettle([@ EXCEPT !.probe = "rejected"], "rejected", err)]
    /\ Commit(raceHandlers(cycles[c], World, raceCatch(World, sync)))
    /\ UNCHANGED <<bridgeID, userCloses, unsolicitedLog, calls>>

\* The timeout timer of cycle c fires: reject('Ping timeout').
ProbeTimeoutFires(c, sync) ==
    /\ c \in 1..Len(cycles)
    /\ cycles[c].timeout = "pending"
    /\ cycles' = [cycles EXCEPT ![c] = raceSettle([@ EXCEPT !.timeout = "fired"], "rejected", "Ping timeout")]
    /\ Commit(raceHandlers(cycles[c], World, raceCatch(World, sync)))
    /\ UNCHANGED <<bridgeID, userCloses, unsolicitedLog, calls>>

(* ------------------------ teardown and the relay ---------------------- *)
\* The owner calls close().
UserClose(sync) ==
    /\ userCloses < MaxCloses
    /\ userCloses' = userCloses + 1
    /\ Commit(close(World, sync))
    /\ UNCHANGED <<bridgeID, cycles, unsolicitedLog, calls>>

\* The LeapClient emits 'disconnected' on its own (the connection ended).
ClientDisconnected(sync) ==
    /\ ~disconnectedFired
    /\ Commit(clientEmitDisconnected(World, sync))
    /\ UNCHANGED <<bridgeID, cycles, userCloses, unsolicitedLog, calls>>

\* The LeapClient emits 'unsolicited' with a response.
ClientUnsolicited(response) ==
    /\ Len(unsolicitedLog) < MaxUnsolicited
    /\ unsolicitedLog' = Append(unsolicitedLog, response)
    /\ emitted' = handleUnsolicited(emitted, bridgeID, response)
    /\ UNCHANGED <<bridgeID, pingLooper, timers, nextTimer, cycles, closeCalls,
                   disconnectedFired, sessionCloses, userCloses, calls>>

NextLife ==
    \/ \E t \in timers : IdleTimerFires(t)
    \/ \E c \in 1..Len(cycles) : ProbeResolves(c)
    \/ \E c \in 1..Len(cycles), err \in TransportErrors, sync \in BOOLEAN :
          ProbeFails(c, err, sync)
    \/ \E c \in 1..Len(cycles), sync \in BOOLEAN : ProbeTimeoutFires(c, sync)
    \/ \E sync \in BOOLEAN : UserClose(sync)
    \/ \E sync \in BOOLEAN : ClientDisconnected(sync)
    \/ \E response \in UnsolicitedResponses : ClientUnsolicited(response)

SpecLife == Init /\ [][NextLife]_vars

(* -------------------------- the command layer ------------------------- *)
\* What the controller knows: the device a Device body carries, the list a
\* Devices body carries, the group a ButtonGroup body carries.
DeviceTable ==
    <<[ FirmwareDisplayName |-> "08.08.15f000", ModelNumber |-> "L-BDG2-WH",
        FullyQualifiedName |-> <<"Living Room", "Shade">>,
        SerialNumber |-> "0x04A1B2C3" ]>>

\* The devices an owner passes in: one with no zone and no button group
\* (LocalZones[0] and ButtonGroups[0] are then undefined), one with two of
\* each.
DeviceArgs ==
    { [LocalZones |-> <<>>, ButtonGroups |-> <<>>],
      [LocalZones |-> <<"/zone/7", "/zone/8">>,
       ButtonGroups |-> <<"/buttongroup/3", "/buttongroup/4">>] }

ButtonHrefs == <<"/button/101", "/button/102", "/button/103", "/button/104">>
\* The button groups an owner passes in: 0..MaxButtons button references.
ButtonGroupArgs == { [Buttons |-> SubSeq(ButtonHrefs, 1, n)] : n \in 0..MaxButtons }

\* The tilt values an owner passes in, in tenths (476 is 47.6).
TiltInputs == {-16, -15, 474, 475, 476}

\* A faulty rounding: the fraction is cut off (Math.floor).
MathFloor(tenths) == tenths \div 10

\* Math.round on a value given in tenths: the nearest integer, a half
\* rounded towards plus infinity.
MathRound(tenths) == (tenths + 5) \div 10

\* Array.prototype.join
RECURSIVE join(_, _)
join(parts, sep) ==
    IF Len(parts) = 0 THEN ""
    ELSE IF Len(parts) = 1 THEN parts[1]
    ELSE parts[1] \o sep \o join(Tail(parts), sep)

\* How a promise of an operation stands.
Pending == [st |-> "pending", val |-> <<>>, err |-> "none"]
Returned(v) == [st |-> "returned", val |-> v, err |-> "none"]
Threw(e) == [st |-> "threw", val |-> <<>>, err |-> e]

\* A promise settles once.
settle(out, new) == IF out.st = "pending" THEN new ELSE out

\* this.client.request(type, href, body): a request in flight.
request(type, href, body) ==
    [type |-> type, href |-> href, body |-> body, st |-> "inflight",
     resp |-> [Body |-> NoBody], err |-> "none"]

\* body.<key> is truthy; reading a property of an absent body is a TypeError.
TypeError == "TypeError"
Has(body, key) == body.key = key

\* ping(), after the await
ping(resp) == Returned(resp)

\* A faulty getBridgeInfo: the body is read as a device, unchecked.
getBridgeInfoUnchecked(raw) ==
    IF raw.Body = NoBody THEN Threw(TypeError)
    ELSE IF Has(raw.Body, "Device")
    THEN LET device == DeviceTable[raw.Body.val]
         IN  Returned([ firmwareRevision |-> device.FirmwareDisplayName,
                        manufacturer |-> "Lutron Electronics Co., Inc",
                        model |-> device.ModelNumber,
                        name |-> join(device.FullyQualifiedName, " "),
                        serialNumber |-> device.SerialNumber ])
    ELSE Threw(TypeError)

\* getBridgeInfo(), after the await
getBridgeInfo(raw) ==
    IF raw.Body = NoBody THEN Threw(TypeError)
    ELSE IF Has(raw.Body, "Device")
    THEN LET device == DeviceTable[raw.Body.val]
         IN  Returned([ firmwareRevision |-> device.FirmwareDisplayName,
                        manufacturer |-> "Lutron Electronics Co., Inc",
                        model |-> device.ModelNumber,
                        name |-> join(device.FullyQualifiedName, " "),
                        serialNumber |-> device.SerialNumber ])
    ELSE Threw("Got bad response to bridge info request")

\* getDeviceInfo(), after the await
getDeviceInfo(raw) ==
    IF raw.Body = NoBody THEN Threw(TypeError)
    ELSE IF Has(raw.Body, "Devices")
    THEN Returned(raw.Body.val)
    ELSE Threw("got bad response to all device list request")

\* readBlindsTilt(), after the await: resp.Body.ZoneStatus.Tilt, unchecked
readBlindsTilt(resp) ==
    IF resp.Body = NoBody THEN Threw(TypeError)
    ELSE IF Has(resp.Body, "ZoneStatus")
    THEN Returned(resp.Body.val)
    ELSE Threw(TypeError)

\* getButtonGroupFromDevice(), after the await
getButtonGroupFromDevice(raw) ==
    IF raw.Body = NoBody THEN Threw(TypeError)
    ELSE IF Has(raw.Body, "ButtonGroup")
    THEN Returned(raw.Body.val)
    ELSE Threw("unable to get button group")

\* getButtonsFromGroup(): the .then of one button's request
buttonThen(resp) ==
    IF resp.Body = NoBody THEN Threw(TypeError)
    ELSE IF Has(resp.Body, "Button")
    THEN Returned(resp.Body.val)
    ELSE Threw("unable to get button")

\* The promise pushed for one button: the request's, mapped by the .then.
buttonPromise(req) ==
    IF req.st = "inflight" THEN Pending
    ELSE IF req.st = "rejected" THEN Threw(req.err)
    ELSE buttonThen(req.resp)

\* A faulty join: the values in the reverse of the order of the array.
promiseAllReversed(promises, i) ==
    IF promises[i].st = "threw" THEN promises[i]
    ELSE IF \A j \in 1..Len(promises) : promises[j].st = "returned"
    THEN Returned([j \in 1..Len(promises) |->
                      promises[Len(promises) + 1 - j].val])
    ELSE Pending

\* A faulty join: it waits for every promise and returns the values of the
\* fulfilled ones, as a best-effort collection would.
promiseAllSettled(promises, i) ==
    IF \E j \in 1..Len(promises) : promises[j].st = "pending" THEN Pending
    ELSE Returned(SelectSeq([j \in 1..Len(promises) |-> promises[j]],
                            LAMBDA q : q.st = "returned"))

\* Promise.all(buttons) when promise i settles: rejected with the reason of
\* a rejected promise, fulfilled with the values in the order of the array
\* once every promise is fulfilled.
promiseAll(promises, i) ==
    IF promises[i].st = "threw" THEN promises[i]
    ELSE IF \A j \in 1..Len(promises) : promises[j].st = "returned"
    THEN Returned([j \in 1..Len(promises) |-> promises[j].val])
    ELSE Pending

\* What an awaiting operation does with the response of its request.
afterAwait(op, resp) ==
    CASE op = "ping" -> ping(resp)
      [] op = "getBridgeInfo" -> getBridgeInfo(resp)
      [] op = "getDeviceInfo" -> getDeviceInfo(resp)
      [] op = "readBlindsTilt" -> readBlindsTilt(resp)
      [] op = "getButtonGroupFromDevice" -> getButtonGroupFromDevice(resp)

\* The operations that await their one request.
Awaiting ==
    {"ping", "getBridgeInfo", "getDeviceInfo", "readBlindsTilt",
     "getButtonGroupFromDevice"}

\* The outcome of call k once request i has settled (reqs is the new state
\* of the call's requests).
continuation(call, reqs, i) ==
    IF call.op \in Awaiting
    THEN settle(call.out,
                IF reqs[i].st = "rejected" THEN Threw(reqs[i].err)
                ELSE afterAwait(call.op, reqs[i].resp))
    ELSE IF call.op = "getButtonsFromGroup"
    THEN settle(call.out,
                promiseAll([j \in 1..Len(reqs) |-> buttonPromise(reqs[j])], i))
    ELSE call.out   \* setBlindsTilt: nobody holds the request's promise

RECURSIVE RequestsSent(_)
RequestsSent(cs) ==
    IF Len(cs) = 0 THEN 0 ELSE Len(Head(cs).reqs) + RequestsSent(Tail(cs))

\* A faulty invocation: an operation counts as a sign of life and restarts
\* the idle interval.
InvokeRestartsIdle(op, arg, reqs, out) ==
    /\ Len(calls) < MaxCalls
    /\ RequestsSent(calls) + Len(reqs) <= MaxRequests
    /\ calls' = Append(calls, [op |-> op, arg |-> arg, reqs |-> reqs, out |-> out,
                               overtaken |-> FALSE])
    /\ Commit(raceThen(World))
    /\ UNCHANGED <<bridgeID, cycles, userCloses, unsolicitedLog>>

Invoke(op, arg, reqs, out) ==
    /\ Len(calls) < MaxCalls
    /\ RequestsSent(calls) + Len(reqs) <= MaxRequests
    /\ calls' = Append(calls, [op |-> op, arg |-> arg, reqs |-> reqs, out |-> out,
                               overtaken |-> FALSE])
    /\ UNCHANGED lifeVars

CallPing ==
    Invoke("ping", <<>>, <<request("ReadRequest", "/server/1/status/ping", 0)>>, Pending)

CallGetBridgeInfo ==
    Invoke("getBridgeInfo", <<>>, <<request("ReadRequest", "/device/1", 0)>>, Pending)

CallGetDeviceInfo ==
    Invoke("getDeviceInfo", <<>>, <<request("ReadRequest", "/device", 0)>>, Pending)

\* The request is sent and not awaited: the operation returns at once.
CallSetBlindsTilt(device, value) ==
    IF Len(device.LocalZones) = 0
    THEN Invoke("setBlindsTilt", [device |-> device, value |-> value], <<>>,
                Threw(TypeError))
    ELSE Invoke("setBlindsTilt", [device |-> device, value |-> value],
                <<request("CreateRequest",
                          device.LocalZones[1] \o "/commandprocessor",
                          MathRound(value))>>,
                Returned(<<>>))

CallReadBlindsTilt(device) ==
    IF Len(device.LocalZones) = 0
    THEN Invoke("readBlindsTilt", device, <<>>, Threw(TypeError))
    ELSE Invoke("readBlindsTilt", device,
                <<request("ReadRequest", device.LocalZones[1] \o "/status", 0)>>,
                Pending)

CallGetButtonGroupFromDevice(device) ==
    IF Len(device.ButtonGroups) = 0
    THEN Invoke("getButtonGroupFromDevice", device, <<>>, Threw(TypeError))
    ELSE Invoke("getButtonGroupFromDevice", device,
                <<request("ReadRequest", device.ButtonGroups[1], 0)>>, Pending)

\* One request per button reference, all sent before any is answered.
CallGetButtonsFromGroup(bgroup) ==
    Invoke("getButtonsFromGroup", bgroup,
           [j \in 1..Len(bgroup.Buttons) |->
               request("ReadRequest", bgroup.Buttons[j], 0)],
           IF Len(bgroup.Buttons) = 0 THEN Returned(<<>>) ELSE Pending)

\* Request i of a call settles while an earlier request of the call is still
\* in flight (a record of the order the requests completed in).
overtakes(call, i) ==
    call.overtaken \/ \E j \in 1..(i - 1) : call.reqs[j].st = "inflight"

\* The LeapClient resolves request i of call k with a response.
RequestResolves(k, i, resp) ==
    /\ k \in 1..Len(calls)
    /\ i \in 1..Len(calls[k].reqs)
    /\ calls[k].reqs[i].st = "inflight"
    /\ LET reqs == [calls[k].reqs EXCEPT
                        ![i] = [@ EXCEPT !.st = "resolved", !.resp = resp]]
       IN  calls' = [calls EXCEPT ![k].reqs = reqs,
                                  ![k].out = continuation(calls[k], reqs, i),
                                  ![k].overtaken = overtakes(calls[k], i)]
    /\ UNCHANGED lifeVars

\* A faulty failure path: the request that failed is sent once more.
RequestFailsRetries(k, i, err) ==
    /\ k \in 1..Len(calls)
    /\ i \in 1..Len(calls[k].reqs)
    /\ calls[k].reqs[i].st = "inflight"
    /\ Len(calls[k].reqs) < MaxRequests + 1
    /\ LET reqs == [calls[k].reqs EXCEPT
                        ![i] = [@ EXCEPT !.st = "rejected", !.err = err]]
       IN  calls' = [calls EXCEPT
                        ![k].reqs = Append(reqs, [calls[k].reqs[i] EXCEPT !.st = "inflight"])]
    /\ UNCHANGED lifeVars

\* The LeapClient rejects request i of call k with a transport error.
RequestFails(k, i, err) ==
    /\ k \in 1..Len(calls)
    /\ i \in 1..Len(calls[k].reqs)
    /\ calls[k].reqs[i].st = "inflight"
    /\ LET reqs == [calls[k].reqs EXCEPT
                        ![i] = [@ EXCEPT !.st = "rejected", !.err = err]]
       IN  calls' = [calls EXCEPT ![k].reqs = reqs,
                                  ![k].out = continuation(calls[k], reqs, i),
                                  ![k].overtaken = overtakes(calls[k], i)]
    /\ UNCHANGED lifeVars

NextCmd ==
    \/ CallPing
    \/ CallGetBridgeInfo
    \/ CallGetDeviceInfo
    \/ \E device \in DeviceArgs, value \in TiltInputs : CallSetBlindsTilt(device, value)
    \/ \E device \in DeviceArgs : CallReadBlindsTilt(device)
    \/ \E device \in DeviceArgs : CallGetButtonGroupFromDevice(device)
    \/ \E bgroup \in ButtonGroupArgs : CallGetButtonsFromGroup(bgroup)
    \/ \E k \in 1..Len(calls) : \E i \in 1..Len(calls[k].reqs) :
          \E resp \in Responses : RequestResolves(k, i, resp)
    \/ \E k \in 1..Len(calls) : \E i \in 1..Len(calls[k].reqs) :
          \E err \in TransportErrors : RequestFails(k, i, err)

\* No command operation reads bridgeID: one identifier is enough here.
InitCmd == Init /\ bridgeID = "bridge-a"

SpecCmd == InitCmd /\ [][NextCmd]_vars

\* The session as a whole, lifecycle and command operations interleaved, on
\* one input per operation: the device with zones and 47.6, a group of two
\* buttons, a Device or a Button body or one transport error as the answer
\* to a request.
FrameDevice == CHOOSE d \in DeviceArgs : Len(d.LocalZones) > 0
FrameGroup == [Buttons |-> SubSeq(ButtonHrefs, 1, 2)]
FrameResponses == [Body : {Body("Device", 1), Body("Button", 1)}]

NextFrame ==
    \/ \E t \in timers : IdleTimerFires(t)
    \/ \E c \in 1..Len(cycles) : ProbeResolves(c)
    \/ \E c \in 1..Len(cycles), sync \in BOOLEAN : ProbeFails(c, "ECONNRESET", sync)
    \/ \E c \in 1..Len(cycles), sync \in BOOLEAN : ProbeTimeoutFires(c, sync)
    \/ \E sync \in BOOLEAN : UserClose(sync)
    \/ \E sync \in BOOLEAN : ClientDisconnected(sync)
    \/ CallPing
    \/ CallGetBridgeInfo
    \/ CallGetDeviceInfo
    \/ CallSetBlindsTilt(FrameDevice, 476)
    \/ CallReadBlindsTilt(FrameDevice)
    \/ CallGetButtonGroupFromDevice(FrameDevice)
    \/ CallGetButtonsFromGroup(FrameGroup)
    \/ \E k \in 1..Len(calls) : \E i \in 1..Len(calls[k].reqs) :
          \E resp \in FrameResponses : RequestResolves(k, i, resp)
    \/ \E k \in 1..Len(calls) : \E i \in 1..Len(calls[k].reqs) :
          RequestFails(k, i, "ECONNRESET")

SpecFrame == InitCmd /\ [][NextFrame]_vars

Next == NextLife \/ NextCmd

Spec == Init /\ [][Next]_vars

(* ======================= the claims: lifecycle ======================== *)
\* A teardown trigger has happened: close() ran (called by the owner or by
\* the disconnect handler) or the race of a ping cycle was lost.
TeardownTriggered ==
    \/ sessionCloses > 0
    \/ \E c \in 1..Len(cycles) : cycles[c].race = "rejected"

\* C1 (as claimed): whatever teardown triggers happen on one session, in
\* whatever order, LeapClient.close() is invoked exactly once in total.
C1_TransportClosedExactlyOnce == TeardownTriggered => closeCalls = 1

SessionDisconnectedEvents ==
    Cardinality({i \in 1..Len(emitted) : emitted[i].event = "disconnected"})

\* C2 (as claimed): once the LeapClient has emitted 'disconnected' and the
\* handler has run, the session has emitted its own 'disconnected' to its
\* subscribers exactly once.
C2_DisconnectedRelayedExactlyOnce ==
    disconnectedFired => SessionDisconnectedEvents = 1

\* C3: when the timeout of a ping cycle fires while the race is undecided
\* (the probe has not settled), LeapClient.close() is invoked in that step
\* and no idle-interval timer is armed; and in every state after a cycle
\* was lost to the timeout, no idle-interval timer is armed and no further
\* cycle has started, also when the probe resolves later.
C3_TimeoutWinsStep ==
    \A c \in 1..Len(cycles) :
        (cycles[c].race = "pending" /\ cycles'[c].reason = "Ping timeout")
            => (closeCalls' > closeCalls /\ timers' = {})
C3_AfterTimeout ==
    \A c \in 1..Len(cycles) :
        cycles[c].reason = "Ping timeout"
            => (cycles[c].race = "rejected" /\ closeCalls >= 1
                /\ timers = {} /\ Len(cycles) = c)
C3_LivenessFailurePath == [][C3_TimeoutWinsStep]_vars /\ []C3_AfterTimeout

\* C3's case: the second cycle was lost to the timeout with its probe
\* still in flight, and that closed the transport.
C3_Witness ==
    /\ Len(cycles) = 2
    /\ cycles[2].reason = "Ping timeout"
    /\ cycles[2].probe = "inflight"
    /\ closeCalls = 1
    /\ sessionCloses = 0

\* C4: when the probe of a cycle resolves while the race is undecided, that
\* step leaves exactly one idle-interval timer armed, a new one held by
\* pingLooper, and does not invoke LeapClient.close(); the timeout of a
\* cycle the probe has won does not invoke it either when it fires later.
C4_ProbeWinsStep ==
    \A c \in 1..Len(cycles) :
        (cycles[c].race = "pending" /\ cycles'[c].race = "fulfilled")
            => /\ timers' = {pingLooper'}
               /\ pingLooper' \notin timers
               /\ pingLooper' # pingLooper
               /\ closeCalls' = closeCalls
C4_LateTimeoutStep ==
    \A c \in 1..Len(cycles) :
        (cycles[c].race = "fulfilled" /\ cycles[c].timeout = "pending"
         /\ cycles'[c].timeout = "fired")
            => (closeCalls' = closeCalls /\ timers' = timers)
C4_LivenessSuccessPath ==
    [][C4_ProbeWinsStep /\ C4_LateTimeoutStep]_vars

\* C4's case: two cycles in succession were won by the probe, both timeouts
\* have fired since, the transport was never closed and one timer is armed.
C4_Witness ==
    /\ Len(cycles) = 2
    /\ \A c \in 1..2 : cycles[c].race = "fulfilled" /\ cycles[c].timeout = "fired"
    /\ closeCalls = 0
    /\ Cardinality(timers) = 1

\* C5: the events the session has emitted are, one for one and in order,
\* the unsolicited responses the LeapClient has emitted, each with the
\* session's bridgeID and the response as it came.
C5_UnsolicitedRelayed ==
    /\ Len(emitted) = Len(unsolicitedLog)
    /\ \A i \in 1..Len(emitted) :
          /\ emitted[i].event = "unsolicited"
          /\ emitted[i].bridgeID = bridgeID
          /\ emitted[i].response = unsolicitedLog[i]

\* C5's case: two different responses were relayed, after a teardown too.
C5_Witness ==
    /\ Len(unsolicitedLog) = 2
    /\ unsolicitedLog[1] # unsolicitedLog[2]
    /\ Len(emitted) = 2
    /\ closeCalls > 0

(* ===================== the claims: command layer ====================== *)
CallsOf(op) == {k \in 1..Len(calls) : calls[k].op = op}

\* A request succeeded for an operation that wants the body to carry key.
Succeeded(req, key) == req.st = "resolved" /\ req.resp.Body.key = key
\* A request failed for it: a transport error, or a response without key.
Failed(req, key) ==
    \/ req.st = "rejected"
    \/ req.st = "resolved" /\ req.resp.Body.key # key

\* C6: when getButtonsFromGroup returns, the list has one button per button
\* reference of the group and its i-th element is the button the response
\* to the request for the i-th reference carried, in whatever order the
\* requests completed.
C6_OrderPreserved ==
    \A k \in CallsOf("getButtonsFromGroup") :
        calls[k].out.st = "returned" =>
            /\ Len(calls[k].out.val) = Len(calls[k].arg.Buttons)
            /\ \A i \in 1..Len(calls[k].arg.Buttons) :
                  /\ calls[k].reqs[i].href = calls[k].arg.Buttons[i]
                  /\ calls[k].reqs[i].st = "resolved"
                  /\ calls[k].out.val[i] = calls[k].reqs[i].resp.Body.val

\* C6's case: three references, the requests completed out of reference
\* order, and the list returned is not its own reverse.
C6_Witness ==
    \E k \in CallsOf("getButtonsFromGroup") :
        /\ Len(calls[k].arg.Buttons) = 3
        /\ calls[k].overtaken
        /\ calls[k].out.st = "returned"
        /\ calls[k].out.val = <<1, 2, 2>>

\* C7: getButtonsFromGroup has failed as soon as one of its requests has
\* failed, whatever the others did or do; it returns a list if and only if
\* every request succeeded.
C7_AllOrNothing ==
    \A k \in CallsOf("getButtonsFromGroup") :
        LET reqs == calls[k].reqs
        IN  /\ (\E i \in 1..Len(reqs) : Failed(reqs[i], "Button"))
                  => calls[k].out.st = "threw"
            /\ calls[k].out.st = "returned"
                  <=> \A i \in 1..Len(reqs) : Succeeded(reqs[i], "Button")

\* C7's case: of three requests the second failed with a transport error,
\* the first and the third succeeded, and the operation failed.
C7_Witness ==
    \E k \in CallsOf("getButtonsFromGroup") :
        /\ Len(calls[k].reqs) = 3
        /\ calls[k].reqs[2].st = "rejected"
        /\ Succeeded(calls[k].reqs[1], "Button")
        /\ Succeeded(calls[k].reqs[3], "Button")
        /\ calls[k].out.st = "threw"
        /\ calls[k].out.err = calls[k].reqs[2].err

\* C8: when the response to getBridgeInfo's read has a body that does not
\* carry Device, getBridgeInfo fails with its shape-validation error; it
\* returns a BridgeInfo only when the body carries Device.
C8_BridgeInfoShapeChecked ==
    \A k \in CallsOf("getBridgeInfo") :
        LET r == calls[k].reqs[1]
        IN  /\ (r.st = "resolved" /\ r.resp.Body # NoBody
                /\ r.resp.Body.key # "Device")
                  => /\ calls[k].out.st = "threw"
                     /\ calls[k].out.err = "Got bad response to bridge info request"
            /\ calls[k].out.st = "returned" => Succeeded(r, "Device")

\* C8's case: the read was answered with a device list.
C8_Witness ==
    \E k \in CallsOf("getBridgeInfo") :
        /\ calls[k].reqs[1].st = "resolved"
        /\ calls[k].reqs[1].resp.Body.key = "Devices"
        /\ calls[k].out.st = "threw"

\* The errors the command layer raises when a response lacks the expected
\* shape.
ShapeValidationErrors ==
    { "Got bad response to bridge info request",
      "got bad response to all device list request",
      "unable to get button group", "unable to get button" }

\* C9 (as claimed): when the response to readBlindsTilt's read has a body
\* that does not carry ZoneStatus, readBlindsTilt fails with a
\* shape-validation error.
C9_TiltShapeChecked ==
    \A k \in CallsOf("readBlindsTilt") :
        \A i \in 1..Len(calls[k].reqs) :
            (calls[k].reqs[i].st = "resolved"
             /\ calls[k].reqs[i].resp.Body # NoBody
             /\ calls[k].reqs[i].resp.Body.key # "ZoneStatus")
                => /\ calls[k].out.st = "threw"
                   /\ calls[k].out.err \in ShapeValidationErrors

\* C10 (as claimed): when a request an operation sent has failed with a
\* transport error, the operation has failed with that error.
C10_TransportErrorsPropagate ==
    \A k \in 1..Len(calls) :
        \A i \in 1..Len(calls[k].reqs) :
            calls[k].reqs[i].st = "rejected"
                => /\ calls[k].out.st = "threw"
                   /\ calls[k].out.err = calls[k].reqs[i].err

\* C11: setBlindsTilt(device, v) on a device with a zone sends exactly one
\* request, a CreateRequest to the command endpoint of the device's first
\* zone, whose tilt is an integer nearest to v (v is in tenths: the tilt is
\* at most half a unit away), the upper one when v lies halfway; 47.6 is
\* sent as 48.
C11_TiltRounded ==
    \A k \in CallsOf("setBlindsTilt") :
        LET device == calls[k].arg.device
            v == calls[k].arg.value
        IN  Len(device.LocalZones) > 0 =>
              /\ Len(calls[k].reqs) = 1
              /\ calls[k].reqs[1].type = "CreateRequest"
              /\ calls[k].reqs[1].href = device.LocalZones[1] \o "/commandprocessor"
              /\ 10 * calls[k].reqs[1].body - v \in -4..5
              /\ v = 476 => calls[k].reqs[1].body = 48

\* C11's case: 47.6 was passed and the write was sent.
C11_Witness ==
    \E k \in CallsOf("setBlindsTilt") :
        /\ calls[k].arg.value = 476
        /\ Len(calls[k].reqs) = 1
        /\ calls[k].reqs[1].body = 48
        /\ calls[k].reqs[1].href = "/zone/7/commandprocessor"

(* ================== the claims: the liveness monitor ================== *)
\* The session has been closed: LeapClient.close() was invoked, by close()
\* (called by the owner or by the disconnect handler) or by a lost race.
SessionClosed == closeCalls > 0

\* C12 (as claimed): in every state after the session was closed no
\* idle-interval timer is armed.
C12_ClosedIsTerminal == SessionClosed => timers = {}

ProbesInFlight == {c \in 1..Len(cycles) : cycles[c].probe = "inflight"}
ProbesRacing == {c \in 1..Len(cycles) : cycles[c].race = "pending"}

\* C13: in every state at most one idle-interval timer is armed, at most
\* one probe of the monitor is in flight, and no idle-interval timer is
\* armed while a probe is racing its timeout.
C13_OneCycleOutstanding ==
    /\ Cardinality(timers) <= 1
    /\ Cardinality(ProbesInFlight) <= 1
    /\ Cardinality(ProbesRacing) <= 1
    /\ ProbesRacing # {} => timers = {}

\* C13's case: the second cycle is racing after the first was won by its
\* probe and rearmed the timer.
C13_Witness ==
    /\ Len(cycles) = 2
    /\ cycles[1].race = "fulfilled"
    /\ cycles[2].race = "pending"
    /\ cycles[2].probe = "inflight"

\* C14: when the probe of a cycle fails with a transport error while the
\* race is undecided, LeapClient.close() is invoked in that step and no
\* idle-interval timer is armed; in every state after a cycle was lost to a
\* failed probe no idle-interval timer is armed and no further cycle (no
\* further probe) has started.
C14_ProbeFailsStep ==
    \A c \in 1..Len(cycles) :
        (cycles[c].race = "pending" /\ cycles'[c].reason \in TransportErrors)
            => (closeCalls' > closeCalls /\ timers' = {})
C14_AfterFailedProbe ==
    \A c \in 1..Len(cycles) :
        cycles[c].reason \in TransportErrors
            => (cycles[c].race = "rejected" /\ closeCalls >= 1
                /\ timers = {} /\ Len(cycles) = c)
C14_FailedProbeIsFatal == [][C14_ProbeFailsStep]_vars /\ []C14_AfterFailedProbe

\* C14's case: the first probe failed before its timeout, which has fired
\* since; the transport was closed once and nothing else happened.
C14_Witness ==
    /\ Len(cycles) = 1
    /\ cycles[1].reason = "EPIPE"
    /\ cycles[1].timeout = "fired"
    /\ closeCalls = 1
    /\ sessionCloses = 0

\* C15 (as claimed): once the probe has won the race of a cycle, the
\* timeout of that cycle is neither pending nor does it fire.
C15_TimeoutCancelled ==
    \A c \in 1..Len(cycles) :
        cycles[c].race = "fulfilled" => cycles[c].timeout \notin {"pending", "fired"}

\* C18: a settlement of the probe or of the timeout of a cycle whose race
\* is decided changes nothing: no timer is armed or cleared, pingLooper
\* stays, LeapClient.close() is not invoked, and the outcome of the race
\* stays what it was.
C18_LoserStep ==
    \A c \in 1..Len(cycles) :
        (cycles[c].race # "pending"
         /\ (cycles'[c].probe # cycles[c].probe
             \/ cycles'[c].timeout # cycles[c].timeout))
            => /\ cycles'[c].race = cycles[c].race
               /\ cycles'[c].reason = cycles[c].reason
               /\ UNCHANGED <<timers, pingLooper, nextTimer, closeCalls,
                              sessionCloses, disconnectedFired>>
C18_OneOutcomePerCycle == [][C18_LoserStep]_vars

\* C18's case: the timeout closed the transport and the probe resolved
\* afterwards.
C18_Witness ==
    /\ Len(cycles) = 1
    /\ cycles[1].reason = "Ping timeout"
    /\ cycles[1].probe = "resolved"
    /\ closeCalls = 1
    /\ timers = {}

(* ======================= the claims: teardown ========================= *)
\* Nothing of the monitor is outstanding: no idle-interval timer is armed
\* and no probe is in flight.
MonitorQuiet == timers = {} /\ ProbesInFlight = {}

\* C19: a step in which close() runs while an idle-interval timer is armed
\* (no probe is in flight then) leaves no timer armed; and from a state
\* with no timer armed and no probe in flight no step arms a timer or
\* starts a cycle: the monitor sends no probe afterwards.
C19_CloseCancelsStep ==
    (timers # {} /\ sessionCloses' > sessionCloses)
        => (ProbesInFlight = {} /\ MonitorQuiet')
C19_QuietStaysQuiet ==
    MonitorQuiet => (MonitorQuiet' /\ Len(cycles') = Len(cycles))
C19_CloseWhileIdle == [][C19_CloseCancelsStep /\ C19_QuietStaysQuiet]_vars

\* C19's case: the first cycle was won by its probe, which rearmed the
\* timer; close() ran during that idle interval, after which the late
\* timeout of the first cycle fired; no second cycle has started.
C19_Witness ==
    /\ Len(cycles) = 1
    /\ cycles[1].race = "fulfilled"
    /\ cycles[1].timeout = "fired"
    /\ pingLooper = 2
    /\ timers = {}
    /\ userCloses = 1
    /\ closeCalls = 1

LostRaces == {c \in 1..Len(cycles) : cycles[c].race = "rejected"}

\* C20: with a LeapClient that emits 'disconnected' at most once, possibly
\* from within close(), every teardown trigger ends after at most two
\* runs of close() and two invocations of LeapClient.close(): the handler
\* runs close() at most once in all, and LeapClient.close() is invoked
\* once per run of close() and once per lost race.
C20_TriggerStep ==
    /\ sessionCloses' <= sessionCloses + 2
    /\ closeCalls' <= closeCalls + 2
C20_Counts ==
    /\ sessionCloses = userCloses + (IF disconnectedFired THEN 1 ELSE 0)
    /\ closeCalls = sessionCloses + Cardinality(LostRaces)
C20_TeardownTerminates == [][C20_TriggerStep]_vars /\ []C20_Counts

\* C20's case: one close() by the owner, within which the LeapClient
\* emitted 'disconnected' and the handler ran close() again.
C20_Witness ==
    /\ userCloses = 1
    /\ disconnectedFired
    /\ sessionCloses = 2
    /\ closeCalls = 2
    /\ cycles = <<>>

(* ================ the claims: commands and the lifecycle ============== *)
\* A step of the command layer: an operation is invoked, or one of the
\* requests of an operation settles (and the operation goes on or ends).
CommandStep ==
    \/ Len(calls') # Len(calls)
    \/ \E k \in 1..Len(calls) : \E i \in 1..Len(calls[k].reqs) :
          calls'[k].reqs[i].st # calls[k].reqs[i].st

\* C16: no step of the command layer (an invocation, a success, a failure
\* of any of the seven operations) changes pingLooper, arms or clears a
\* timer, starts or settles a ping cycle, runs close() or invokes
\* LeapClient.close().
C16_CommandsLeaveLifecycle ==
    [][CommandStep =>
          UNCHANGED <<pingLooper, timers, nextTimer, cycles, closeCalls,
                      sessionCloses, disconnectedFired>>]_vars

\* C16's case: while a probe of the monitor is racing its timeout, a ping
\* called by the owner has failed; the transport has not been closed and
\* the race is still open.
C16_Witness ==
    /\ Len(cycles) = 1
    /\ cycles[1].race = "pending"
    /\ Len(calls) = 1
    /\ calls[1].op = "ping"
    /\ calls[1].out.st = "threw"
    /\ closeCalls = 0

\* The requests an invocation has to send: one, or one per button
\* reference; none when the device has no zone or button group to address
\* (the operation throws before sending).
RequestsDue(call) ==
    CASE call.op \in {"ping", "getBridgeInfo", "getDeviceInfo"} -> 1
      [] call.op = "setBlindsTilt" ->
            IF Len(call.arg.device.LocalZones) > 0 THEN 1 ELSE 0
      [] call.op = "readBlindsTilt" ->
            IF Len(call.arg.LocalZones) > 0 THEN 1 ELSE 0
      [] call.op = "getButtonGroupFromDevice" ->
            IF Len(call.arg.ButtonGroups) > 0 THEN 1 ELSE 0
      [] call.op = "getButtonsFromGroup" -> Len(call.arg.Buttons)

\* C17: in every state, whatever has become of its requests, an invocation
\* has sent exactly the requests it has to send, each once: one per
\* operation, one per button reference (to that reference) for
\* getButtonsFromGroup.
C17_NoRetries ==
    \A k \in 1..Len(calls) :
        /\ Len(calls[k].reqs) = RequestsDue(calls[k])
        /\ calls[k].op = "getButtonsFromGroup" =>
              \A i \in 1..Len(calls[k].reqs) :
                  calls[k].reqs[i].href = calls[k].arg.Buttons[i]

\* C17's case: of three button requests one failed with a transport error,
\* one failed shape validation and one succeeded; three were sent.
C17_Witness ==
    \E k \in CallsOf("getButtonsFromGroup") :
        /\ Len(calls[k].reqs) = 3
        /\ calls[k].reqs[1].st = "rejected"
        /\ calls[k].reqs[2].st = "resolved"
        /\ calls[k].reqs[2].resp.Body.key = "Devices"
        /\ Succeeded(calls[k].reqs[3], "Button")

====
